---- MODULE Spec2Model ----
(***************************************************************************)
(* A state-machine model of tactile_map_generator.py: one run of main(),   *)
(* from fetch_map_data through process_geometries and generate_3d_model.   *)
(*                                                                         *)
(* Planar geometry is kept in whole metres on a small grid.  Mesh          *)
(* coordinates are rationals: every mesh carries one denominator `den`,    *)
(* so that the centring translation by the negative centroid is exact.     *)
(* Calls into shapely / osmnx / trimesh whose outcome depends on the       *)
(* installed library or on the file system are modelled as a choice over   *)
(* the outcomes the call can have (a value or a raised exception).         *)
(***************************************************************************)
EXTENDS Integers, Sequences, FiniteSets, TLC

VARIABLES
    pc,             \* position of the run inside main / the function it called
    buildings,      \* main: buildings (a GeoDataFrame) or None
    graph,          \* main: graph (a MultiDiGraph) or None
    all_buildings,  \* process_geometries: result of unary_union
    building_poly,  \* process_geometries / main: the footprint
    edge_i,         \* process_geometries: how many edges the loop has consumed
    paths,          \* process_geometries / main: list of path curves
    building_mesh,  \* generate_3d_model: footprint Solid
    path_meshes,    \* generate_3d_model: list of path Solids
    path_i,         \* generate_3d_model: how many paths the loop has consumed
    path_ok,        \* per consumed path, whether its try-block completed
    combined_mesh,  \* generate_3d_model: merged mesh
    output_file,    \* the artifact on disk: None or the exported mesh
    console,        \* the lines printed so far (tags)
    exc             \* exception in flight or last caught ("" if none)

vars == <<pc, buildings, graph, all_buildings, building_poly, edge_i, paths,
          building_mesh, path_meshes, path_i, path_ok, combined_mesh,
          output_file, console, exc>>

\* Python's None
None == [type |-> "None"]

\* the buildings GeoDataFrame: its geometry column, in row order
GeoDataFrame(geoms) == [type |-> "GeoDataFrame", geometry |-> geoms]

\* the projected walk graph: the geometries of its edges, in edge order
MultiDiGraph(edges) == [type |-> "MultiDiGraph", edges |-> edges]

----------------------------------------------------------------------------
(* Bounds of the model. *)

\* largest number of building geometries the fetch returns
MaxBuildings == 2
\* largest number of graph edges the fetch returns
MaxEdges == 2

----------------------------------------------------------------------------
(* Small helpers. *)

Abs(n) == IF n < 0 THEN -n ELSE n

RECURSIVE SumTo(_, _)
SumTo(f, n) == IF n = 0 THEN 0 ELSE f[n] + SumTo(f, n - 1)

\* sum of the entries of a sequence of integers
SeqSum(s) == SumTo(s, Len(s))

Range(s) == {s[i] : i \in 1..Len(s)}

\* all sequences over S of length at most n
SeqsUpTo(S, n) == UNION {[1..k -> S] : k \in 0..n}

\* all orderings of a finite set, as sequences
Orderings(S) ==
    {s \in [1..Cardinality(S) -> S] : \A i, j \in 1..Cardinality(S) : s[i] = s[j] => i = j}

Sub(p, q) == <<p[1] - q[1], p[2] - q[2]>>
Dot(p, q) == p[1] * q[1] + p[2] * q[2]
Cross(p, q) == p[1] * q[2] - p[2] * q[1]

----------------------------------------------------------------------------
(* shapely geometries. *)

\* shapely.geometry.Polygon(shell): the ring is stored closed, as shapely does.
\* Coordinates are metres times den; den is 1 except for buffered ribbons.
Polygon(shell) ==
    [type |-> "Polygon",
     exterior |-> IF shell = <<>> THEN <<>> ELSE Append(shell, shell[1]),
     den |-> 1]

\* a Polygon value from an already closed ring
PolygonOfRing(ring) == [type |-> "Polygon", exterior |-> ring, den |-> 1]

LineString(coords) == [type |-> "LineString", coords |-> coords]

MultiPolygon(polys) == [type |-> "MultiPolygon", geoms |-> polys]

GeometryCollection(gs) == [type |-> "GeometryCollection", geoms |-> gs]

Point(p) == [type |-> "Point", coords |-> <<p>>]

\* twice the signed shoelace area of a closed ring
RECURSIVE Shoelace2(_, _)
Shoelace2(ring, k) ==
    IF k < 1 THEN 0
    ELSE Cross(ring[k], ring[k + 1]) + Shoelace2(ring, k - 1)

\* twice geom.area
RECURSIVE Area2(_)
Area2(g) ==
    CASE g.type = "Polygon" ->
            IF g.exterior = <<>> THEN 0
            ELSE Abs(Shoelace2(g.exterior, Len(g.exterior) - 1))
      [] g.type \in {"MultiPolygon", "GeometryCollection"} ->
            SeqSum([i \in 1..Len(g.geoms) |-> Area2(g.geoms[i])])
      [] OTHER -> 0

\* geom.is_empty
is_empty_geom(g) ==
    CASE g.type = "Polygon" -> g.exterior = <<>>
      [] g.type \in {"MultiPolygon", "GeometryCollection"} -> g.geoms = <<>>
      [] OTHER -> g.coords = <<>>

\* orientation of r relative to the directed line p -> q
Orient(p, q, r) == Cross(Sub(q, p), Sub(r, p))

\* the open segments (a,b) and (c,d) cross in a single interior point
ProperCross(a, b, c, d) ==
    /\ Orient(a, b, c) * Orient(a, b, d) < 0
    /\ Orient(c, d, a) * Orient(c, d, b) < 0

\* a closed ring is simple: no two of its edges cross, and it encloses area
RingSimple(ring) ==
    /\ Len(ring) >= 4
    /\ Shoelace2(ring, Len(ring) - 1) # 0
    /\ \A i, j \in 1..(Len(ring) - 1) :
          i < j => ~ProperCross(ring[i], ring[i + 1], ring[j], ring[j + 1])

\* geom.is_valid
RECURSIVE is_valid(_)
is_valid(g) ==
    CASE g.type = "Polygon" -> g.exterior = <<>> \/ RingSimple(g.exterior)
      [] g.type \in {"MultiPolygon", "GeometryCollection"} ->
            \A i \in 1..Len(g.geoms) : is_valid(g.geoms[i])
      [] g.type = "LineString" ->
            g.coords = <<>> \/ \E i, j \in 1..Len(g.coords) : g.coords[i] # g.coords[j]
      [] OTHER -> TRUE

----------------------------------------------------------------------------
(* shapely.simplify(geom, tolerance): the topology-preserving              *)
(* Douglas-Peucker simplifier (preserve_topology defaults to True).        *)

\* squared distance from p to the segment a-b, as a fraction <<num, den>>
DistSq(p, a, b) ==
    LET d == Sub(b, a)
        v == Sub(p, a)
        t == Dot(v, d)
    IN  IF Dot(d, d) = 0 \/ t <= 0 THEN <<Dot(v, v), 1>>
        ELSE IF t >= Dot(d, d) THEN <<Dot(Sub(p, b), Sub(p, b)), 1>>
        ELSE <<Cross(d, v) * Cross(d, v), Dot(d, d)>>

\* fraction x is strictly greater than fraction y
FracGreater(x, y) == x[1] * y[2] > y[1] * x[2]

\* index of the first point strictly between i and j that is furthest from
\* the segment pts[i]-pts[j]
FurthestPoint(pts, i, j) ==
    CHOOSE k \in (i + 1)..(j - 1) :
        \A m \in (i + 1)..(j - 1) :
            /\ ~FracGreater(DistSq(pts[m], pts[i], pts[j]), DistSq(pts[k], pts[i], pts[j]))
            /\ m < k => FracGreater(DistSq(pts[k], pts[i], pts[j]),
                                    DistSq(pts[m], pts[i], pts[j]))

\* the output coordinates with the segment pts[i]-pts[j] added
AddSegment(res, pts, i, j) ==
    IF res = <<>> THEN <<pts[i], pts[j]>> ELSE Append(res, pts[j])

\* one section of the simplifier: flatten pts[i..j] to a single segment when
\* every point between lies within the tolerance and the output keeps at
\* least minSize coordinates, else split at the furthest point
RECURSIVE SimplifySection(_, _, _, _, _, _, _)
SimplifySection(pts, i, j, depth, res, tolSq, minSize) ==
    IF i + 1 = j THEN AddSegment(res, pts, i, j)
    ELSE
        LET k == FurthestPoint(pts, i, j)
            sizeOk == ~(Len(res) < minSize /\ depth + 2 < minSize)
            near == ~FracGreater(DistSq(pts[k], pts[i], pts[j]), <<tolSq, 1>>)
        IN  IF sizeOk /\ near THEN AddSegment(res, pts, i, j)
            ELSE SimplifySection(pts, k, j, depth + 1,
                     SimplifySection(pts, i, k, depth + 1, res, tolSq, minSize),
                     tolSq, minSize)

\* simplify a coordinate sequence; rings keep at least 4 coordinates, lines 2
SimplifyCoords(pts, tolSq, minSize) ==
    IF Len(pts) < 2 THEN pts
    ELSE SimplifySection(pts, 1, Len(pts), 0, <<>>, tolSq, minSize)

\* shapely.simplify(geom, tolerance), tolSq the squared tolerance
RECURSIVE simplify(_, _)
simplify(g, tolSq) ==
    CASE g.type = "Polygon" ->
            PolygonOfRing(SimplifyCoords(g.exterior, tolSq, 4))
      [] g.type = "LineString" ->
            LineString(SimplifyCoords(g.coords, tolSq, 2))
      [] g.type \in {"MultiPolygon", "GeometryCollection"} ->
            [g EXCEPT !.geoms = [i \in 1..Len(g.geoms) |-> simplify(g.geoms[i], tolSq)]]
      [] OTHER -> g

----------------------------------------------------------------------------
(* The data the fetch can return. *)

\* a rectangular building outline covering x in [lo, hi]
Rect(lo, hi) == Polygon(<<<<lo, 0>>, <<hi, 0>>, <<hi, 10>>, <<lo, 10>>>>)

\* a self-crossing outline: its edges 1 and 3 cross at (12, 2)
Bowtie == Polygon(<<<<10, 0>>, <<14, 4>>, <<14, 0>>, <<10, 4>>>>)

\* the geometries a building row can carry (OSM nodes arrive as Points)
BuildingGeoms == {Rect(0, 2), Rect(5, 7), Rect(4, 9), Point(<<20, 20>>), Bowtie}

\* the geometries a graph edge can carry
EdgeGeoms ==
    {LineString(<<<<0, 0>>, <<3, 1>>, <<6, 0>>>>),    \* bends by 1 m
     LineString(<<<<0, 5>>, <<3, 9>>, <<6, 5>>>>),    \* bends by 4 m
     LineString(<<<<1, 1>>, <<1, 2>>, <<1, 1>>>>),    \* out and back within 1 m
     Point(<<3, 3>>)}                                 \* not a LineString

----------------------------------------------------------------------------
(* shapely.ops.unary_union over the building geometries. *)

\* what a raising library call yields in place of a value
Raise == [type |-> "Exception"]

Xs(g) == {g.exterior[i][1] : i \in 1..Len(g.exterior)}
Ys(g) == {g.exterior[i][2] : i \in 1..Len(g.exterior)}
MinOf(S) == CHOOSE x \in S : \A y \in S : x <= y
MaxOf(S) == CHOOSE x \in S : \A y \in S : x >= y

\* a finite set of integers as an ascending sequence
Ascending(S) ==
    CHOOSE s \in Orderings(S) : \A i \in 1..(Len(s) - 1) : s[i] < s[i + 1]

Reverse(s) == [i \in 1..Len(s) |-> s[Len(s) + 1 - i]]

PolygonsIn(geoms) == {g \in Range(geoms) : g.type = "Polygon" /\ g.exterior # <<>>}
PointsIn(geoms) == {g \in Range(geoms) : g.type = "Point"}

\* the dissolved outline of the valid polygons (axis-parallel rectangles on a
\* common base line): one ring per maximal covered x-interval, keeping the
\* vertices where input outlines met as collinear points of the ring
UnionParts(valid) ==
    IF valid = {} THEN {}
    ELSE
        LET allX == UNION {Xs(g) : g \in valid}
            top == MaxOf(UNION {Ys(g) : g \in valid})
            Covered(k) == \E g \in valid : MinOf(Xs(g)) <= k /\ k + 1 <= MaxOf(Xs(g))
            spans == {<<lo, hi>> \in allX \X allX :
                        /\ lo < hi
                        /\ \A k \in lo..(hi - 1) : Covered(k)
                        /\ ~Covered(lo - 1)
                        /\ ~Covered(hi)}
            ring(lo, hi) ==
                LET xs == Ascending({x \in allX : lo <= x /\ x <= hi})
                IN  [i \in 1..Len(xs) |-> <<xs[i], 0>>]
                    \o [i \in 1..Len(xs) |-> <<Reverse(xs)[i], top>>]
                    \o <<<<lo, 0>>>>
        IN  {PolygonOfRing(ring(sp[1], sp[2])) : sp \in spans}

\* a point lies in or on one of the dissolved parts
PointCovered(pt, parts) ==
    \E q \in parts :
        /\ MinOf(Xs(q)) <= pt.coords[1][1] /\ pt.coords[1][1] <= MaxOf(Xs(q))
        /\ MinOf(Ys(q)) <= pt.coords[1][2] /\ pt.coords[1][2] <= MaxOf(Ys(q))

\* the geometry holding `parts` (polygons, in the order given) and `pts`
Assemble(parts, pts) ==
    IF pts = <<>> THEN
        IF Len(parts) = 1 THEN parts[1] ELSE MultiPolygon(parts)
    ELSE IF parts = <<>> /\ Len(pts) = 1 THEN pts[1]
    ELSE GeometryCollection(parts \o pts)

\* unary_union(buildings.geometry): every result the call can have.  The
\* order of the parts of a multi-part result is the library's choice.  With an
\* invalid polygon among the inputs the overlay either raises or hands the
\* invalid outline through as a part of its own.
unary_union(geoms) ==
    LET polys == PolygonsIn(geoms)
        valid == {g \in polys : is_valid(g)}
        parts == UnionParts(valid) \cup (polys \ valid)
        pts == {q \in PointsIn(geoms) : ~PointCovered(q, UnionParts(valid))}
    IN  {Assemble(ps, qs) : ps \in Orderings(parts), qs \in Orderings(pts)}
        \cup (IF polys = valid THEN {} ELSE {Raise})

\* the scan with >= in place of >: a later part of equal area replaces the best
RECURSIVE MaxScanLastWins(_, _, _)
MaxScanLastWins(parts, k, best) ==
    IF k > Len(parts) THEN best
    ELSE MaxScanLastWins(parts, k + 1,
                         IF Area2(parts[k]) >= Area2(best) THEN parts[k] ELSE best)

\* max(parts, key=lambda p: p.area): the scan keeps the current best unless a
\* later part is strictly larger
RECURSIVE MaxScan(_, _, _)
MaxScan(parts, k, best) ==
    IF k > Len(parts) THEN best
    ELSE MaxScan(parts, k + 1,
                 IF Area2(parts[k]) > Area2(best) THEN parts[k] ELSE best)

MaxByArea(parts) == MaxScan(parts, 2, parts[1])

----------------------------------------------------------------------------
(* geom.buffer(0) on an invalid outline, and path.buffer(0.5). *)

\* the point where edge 1 and edge 3 of a four-vertex self-crossing ring meet
CrossingPoint(ring) ==
    LET a == ring[1]
        d1 == Sub(ring[2], ring[1])
        d2 == Sub(ring[4], ring[3])
        tn == Cross(Sub(ring[3], a), d2)
        td == Cross(d1, d2)
    IN  <<a[1] + (d1[1] * tn) \div td, a[2] + (d1[2] * tn) \div td>>

\* the two lobes of a four-vertex self-crossing ring
Lobes(g) ==
    LET r == g.exterior
        x == CrossingPoint(r)
    IN  <<Polygon(<<r[1], x, r[4]>>), Polygon(<<x, r[2], r[3]>>)>>

\* geom.buffer(0): every result the repair of an invalid geometry can have:
\* both lobes as a MultiPolygon, one lobe only, or nothing at all
buffer0(g) ==
    LET bad == CHOOSE q \in {g} \cup (IF g.type = "Polygon" THEN {} ELSE Range(g.geoms)) :
                   q.type = "Polygon" /\ ~is_valid(q)
    IN  {MultiPolygon(Lobes(bad)), Lobes(bad)[1], Polygon(<<>>)}

\* path.buffer(0.5): the ribbon around a curve, represented by its envelope
\* (the bounding box of the curve grown by 0.5 on every side), in half metres
buffer_half(line) ==
    LET xs == {line.coords[i][1] : i \in 1..Len(line.coords)}
        ys == {line.coords[i][2] : i \in 1..Len(line.coords)}
        x0 == 2 * MinOf(xs) - 1
        x1 == 2 * MaxOf(xs) + 1
        y0 == 2 * MinOf(ys) - 1
        y1 == 2 * MaxOf(ys) + 1
    IN  [type |-> "Polygon",
         exterior |-> <<<<x0, y0>>, <<x1, y0>>, <<x1, y1>>, <<x0, y1>>, <<x0, y0>>>>,
         den |-> 2]

----------------------------------------------------------------------------
(* Exact fractions <<numerator, denominator>>, denominator > 0, lowest terms. *)

RECURSIVE GCD(_, _)
GCD(a, b) == IF b = 0 THEN a ELSE GCD(b, a % b)

FracNorm(n, d) ==
    IF n = 0 THEN <<0, 1>>
    ELSE LET g == GCD(Abs(n), d) IN <<n \div g, d \div g>>

FracAdd(x, y) ==
    LET g == GCD(x[2], y[2])
    IN  FracNorm(x[1] * (y[2] \div g) + y[1] * (x[2] \div g), (x[2] \div g) * y[2])

FracNeg(x) == <<-x[1], x[2]>>

Zero3 == <<<<0, 1>>, <<0, 1>>, <<0, 1>>>>

----------------------------------------------------------------------------
(* trimesh meshes.  A mesh is its list of faces, each face given by the    *)
(* numerators c of its triangle centre (the centre is c / den metres) and  *)
(* its weight w (twice its area in square metres), plus the translation    *)
(* `shift` applied to the mesh so far.  A prism is represented by the fan  *)
(* triangles of its bottom and top caps.                                   *)

\* the common denominator of freshly created meshes
MeshDen == 6 * 10

EmptyMesh == [type |-> "Trimesh", faces |-> <<>>, den |-> MeshDen, shift |-> Zero3]

\* the cap faces of the prism over a closed ring between zLo and zHi (tenths of
\* a metre); d is the ring's coordinate denominator
PrismFaces(ring, d, zLo, zHi) ==
    LET n == Len(ring) - 1
        tri(i, z) ==
            [c |-> <<(ring[1][1] + ring[i][1] + ring[i + 1][1]) * (20 \div d),
                     (ring[1][2] + ring[i][2] + ring[i + 1][2]) * (20 \div d),
                     6 * z>>,
             w |-> Abs(Cross(Sub(ring[i], ring[1]), Sub(ring[i + 1], ring[1]))) \div (d * d)]
    IN  [i \in 1..(n - 2) |-> tri(i + 1, zLo)] \o [i \in 1..(n - 2) |-> tri(i + 1, zHi)]

\* trimesh.creation.extrude_polygon(polygon, height), height in tenths of a
\* metre: every result the call can have.  Only a valid single Polygon can be
\* triangulated; an empty one gives an exception or a mesh without faces; the
\* triangulation itself can raise.
extrude_polygon(polygon, height) ==
    {Raise} \cup
    (IF polygon.type # "Polygon" \/ ~is_valid(polygon) THEN {}
     ELSE IF polygon.exterior = <<>> THEN {EmptyMesh}
     ELSE {[type |-> "Trimesh",
            faces |-> PrismFaces(polygon.exterior, polygon.den, 0, height),
            den |-> MeshDen, shift |-> Zero3]})

\* a box that takes the extents for half-extents
BoxDoubled(extents) ==
    LET hx == extents[1]
        hy == extents[2]
        hz == extents[3] * 10
    IN  [type |-> "Trimesh",
         faces |-> PrismFaces(<<<<-hx, -hy>>, <<hx, -hy>>, <<hx, hy>>, <<-hx, hy>>, <<-hx, -hy>>>>,
                              1, -hz, hz),
         den |-> MeshDen, shift |-> Zero3]

\* trimesh.creation.box(extents): a box centred on the origin
box(extents) ==
    LET hx == extents[1] \div 2
        hy == extents[2] \div 2
        hz == (extents[3] * 10) \div 2
    IN  [type |-> "Trimesh",
         faces |-> PrismFaces(<<<<-hx, -hy>>, <<hx, -hy>>, <<hx, hy>>, <<-hx, hy>>, <<-hx, -hy>>>>,
                              1, -hz, hz),
         den |-> MeshDen, shift |-> Zero3]

\* trimesh.util.concatenate(meshes): the faces of all meshes, in order
RECURSIVE ConcatFaces(_, _)
ConcatFaces(meshes, k) ==
    IF k > Len(meshes) THEN <<>>
    ELSE meshes[k].faces \o ConcatFaces(meshes, k + 1)

concatenate(meshes) ==
    [type |-> "Trimesh", faces |-> ConcatFaces(meshes, 1), den |-> MeshDen, shift |-> Zero3]

\* an emptiness test that never fires
NeverEmpty(mesh) == FALSE

\* mesh.is_empty
is_empty(mesh) == mesh.faces = <<>>

\* mesh.centroid: the face centres averaged with the face areas as weights,
\* as a vector of fractions
centroid(mesh) ==
    LET W == SeqSum([i \in 1..Len(mesh.faces) |-> mesh.faces[i].w])
        M(k) == SeqSum([i \in 1..Len(mesh.faces) |-> mesh.faces[i].w * mesh.faces[i].c[k]])
    IN  [k \in 1..3 |-> FracAdd(FracNorm(M(k), mesh.den * W), mesh.shift[k])]

\* mesh.apply_translation(t)
apply_translation(mesh, t) ==
    [mesh EXCEPT !.shift = [k \in 1..3 |-> FracAdd(mesh.shift[k], t[k])]]

\* the vector -v
Negated(v) == [k \in 1..3 |-> FracNeg(v[k])]

----------------------------------------------------------------------------
(* The run. *)

Init ==
    /\ pc = "fetch"
    /\ buildings = None
    /\ graph = None
    /\ all_buildings = None
    /\ building_poly = None
    /\ edge_i = 0
    /\ paths = <<>>
    /\ building_mesh = None
    /\ path_meshes = <<>>
    /\ path_i = 0
    /\ path_ok = <<>>
    /\ combined_mesh = None
    /\ output_file = None
    /\ console = <<>>
    /\ exc = ""

pgVars == <<all_buildings, building_poly, edge_i, paths>>
g3dVars == <<building_mesh, path_meshes, path_i, path_ok, combined_mesh, output_file>>

\* fetch_map_data returns the projected buildings and graph
FetchData ==
    /\ pc = "fetch"
    /\ \E b \in SeqsUpTo(BuildingGeoms, MaxBuildings), e \in SeqsUpTo(EdgeGeoms, MaxEdges) :
          /\ buildings' = GeoDataFrame(b)
          /\ graph' = MultiDiGraph(e)
    /\ pc' = "fetched"
    /\ UNCHANGED <<pgVars, g3dVars, console, exc>>

\* fetch_map_data catches an exception of the geocoder or the queries
FetchError ==
    /\ pc = "fetch"
    /\ buildings' = None
    /\ graph' = None
    /\ console' = Append(console, "ERROR")
    /\ pc' = "fetched"
    /\ UNCHANGED <<pgVars, g3dVars, exc>>

\* a test that lets a failed fetch through
NeverFailed(b, g) == FALSE

\* main: the test `buildings is None or graph is None`
FetchFailed(b, g) == b = None \/ g = None

\* main: the fetch failed; print FAILED and return
MainAbort ==
    /\ pc = "fetched"
    /\ FetchFailed(buildings, graph)
    /\ console' = Append(console, "FAILED")
    /\ pc' = "done"
    /\ UNCHANGED <<buildings, graph, pgVars, g3dVars, exc>>

\* main calls process_geometries(buildings, graph)
MainProcess ==
    /\ pc = "fetched"
    /\ ~FetchFailed(buildings, graph)
    /\ pc' = "pg_buildings"
    /\ UNCHANGED <<buildings, graph, pgVars, g3dVars, console, exc>>

\* a fallback square of half the side
SmallSquare == Polygon(<<<<0, 0>>, <<10, 0>>, <<10, 10>>, <<0, 10>>>>)

\* the fallback square of process_geometries
FallbackSquare == Polygon(<<<<0, 0>>, <<20, 0>>, <<20, 20>>, <<0, 20>>>>)

\* process_geometries: len(buildings) == 0
PGFallbackBuilding ==
    /\ pc = "pg_buildings"
    /\ Len(buildings.geometry) = 0
    /\ building_poly' = FallbackSquare
    /\ console' = Append(console, "FALLBACK_BUILDING")
    /\ pc' = "pg_edges"
    /\ UNCHANGED <<buildings, graph, all_buildings, edge_i, paths, g3dVars, exc>>

\* process_geometries: all_buildings = unary_union(buildings.geometry)
PGUnion ==
    /\ pc = "pg_buildings"
    /\ Len(buildings.geometry) # 0
    /\ \E u \in unary_union(buildings.geometry) :
          IF u = Raise   \* not caught in process_geometries nor in main
          THEN /\ exc' = "GEOSException"
               /\ pc' = "uncaught"
               /\ UNCHANGED all_buildings
          ELSE /\ all_buildings' = u
               /\ pc' = "pg_select"
               /\ UNCHANGED exc
    /\ UNCHANGED <<buildings, graph, building_poly, edge_i, paths, g3dVars, console>>

\* the footprint chosen from the union
SelectFootprint(u) ==
    IF u.type = "MultiPolygon" THEN MaxByArea(u.geoms) ELSE u

\* process_geometries: the isinstance(all_buildings, MultiPolygon) branch
PGSelect ==
    /\ pc = "pg_select"
    /\ building_poly' = SelectFootprint(all_buildings)
    /\ pc' = "pg_clean"
    /\ UNCHANGED <<buildings, graph, all_buildings, edge_i, paths, g3dVars, console, exc>>

\* process_geometries: building_poly is valid, buffer(0) is skipped
PGCleanSkip ==
    /\ pc = "pg_clean"
    /\ is_valid(building_poly)
    /\ pc' = "pg_simplify"
    /\ UNCHANGED <<buildings, graph, pgVars, g3dVars, console, exc>>

\* process_geometries: building_poly = building_poly.buffer(0)
PGCleanRepair ==
    /\ pc = "pg_clean"
    /\ ~is_valid(building_poly)
    /\ \E r \in buffer0(building_poly) : building_poly' = r
    /\ pc' = "pg_simplify"
    /\ UNCHANGED <<buildings, graph, all_buildings, edge_i, paths, g3dVars, console, exc>>

\* the footprint after simplification with tolerance 2.0
SimplifyFootprint(g) == simplify(g, 2 * 2)

\* process_geometries: building_poly = simplify(building_poly, tolerance=2.0)
PGSimplify ==
    /\ pc = "pg_simplify"
    /\ building_poly' = SimplifyFootprint(building_poly)
    /\ pc' = "pg_edges"
    /\ UNCHANGED <<buildings, graph, all_buildings, edge_i, paths, g3dVars, console, exc>>

\* process_geometries: edges = ox.graph_to_gdfs(graph, nodes=False)
PGEdges ==
    /\ pc = "pg_edges"
    /\ edge_i' = 0
    /\ paths' = <<>>
    /\ pc' = "pg_loop"
    /\ UNCHANGED <<buildings, graph, all_buildings, building_poly, g3dVars, console, exc>>

\* the loop body without the validity test after simplification
AppendEdgeUnchecked(ps, geom) ==
    IF geom.type = "LineString" /\ Len(geom.coords) >= 2
    THEN Append(ps, simplify(geom, 1 * 1))
    ELSE ps

\* the path list after one edge of the loop
AppendEdge(ps, geom) ==
    IF geom.type = "LineString" /\ Len(geom.coords) >= 2
    THEN LET path == simplify(geom, 1 * 1)
         IN  IF is_valid(path) THEN Append(ps, path) ELSE ps
    ELSE ps

\* process_geometries: one iteration of the loop over edges
PGEdge ==
    /\ pc = "pg_loop"
    /\ edge_i < Len(graph.edges)
    /\ paths' = AppendEdge(paths, graph.edges[edge_i + 1])
    /\ edge_i' = edge_i + 1
    /\ UNCHANGED <<pc, buildings, graph, all_buildings, building_poly, g3dVars, console, exc>>

\* the fallback path of process_geometries
FallbackPath == LineString(<<<<5, 5>>, <<15, 15>>>>)

\* the path list process_geometries returns
FinalPaths(ps) == IF Len(ps) = 0 THEN <<FallbackPath>> ELSE ps

\* process_geometries: the loop is over; fallback path, return to main, and
\* main calls generate_3d_model
PGReturn ==
    /\ pc = "pg_loop"
    /\ edge_i = Len(graph.edges)
    /\ paths' = FinalPaths(paths)
    /\ console' = IF Len(paths) = 0 THEN Append(console, "FALLBACK_PATH") ELSE console
    /\ all_buildings' = None
    /\ edge_i' = 0
    /\ pc' = "g_building"
    /\ UNCHANGED <<buildings, graph, building_poly, g3dVars, exc>>

----------------------------------------------------------------------------
(* generate_3d_model(building_poly, paths, output_file) and the rest of main. *)

\* the footprint Solid: the extrusion to height 10, or the box when it raised
BuildingMesh(outcome) ==
    IF outcome = Raise THEN box(<<20, 20, 10>>) ELSE outcome

\* generate_3d_model: the try/except around the footprint extrusion
ExtrudeBuilding ==
    /\ pc = "g_building"
    /\ \E m \in extrude_polygon(building_poly, 10 * 10) :
          building_mesh' = BuildingMesh(m)
    /\ path_meshes' = <<>>
    /\ path_i' = 0
    /\ path_ok' = <<>>
    /\ pc' = "g_paths"
    /\ UNCHANGED <<buildings, graph, pgVars, combined_mesh, output_file, console, exc>>

\* a loop body whose failure throws away the Solids gathered so far
AppendPathMeshReset(meshes, outcome) ==
    IF outcome = Raise THEN <<>> ELSE Append(meshes, outcome)

\* the path Solids after one iteration of the loop over paths
AppendPathMesh(meshes, outcome) ==
    IF outcome = Raise THEN meshes ELSE Append(meshes, outcome)

\* generate_3d_model: one iteration of the loop over paths (widen, extrude,
\* append; an exception is printed and the loop goes on)
ExtrudePath ==
    /\ pc = "g_paths"
    /\ path_i < Len(paths)
    /\ \E m \in extrude_polygon(buffer_half(paths[path_i + 1]), 3) :
          /\ path_meshes' = AppendPathMesh(path_meshes, m)
          /\ path_ok' = Append(path_ok, m # Raise)
    /\ path_i' = path_i + 1
    /\ UNCHANGED <<pc, buildings, graph, pgVars, building_mesh, combined_mesh,
                   output_file, console, exc>>

\* the merged mesh
Combine(bm, pms) ==
    IF pms # <<>> THEN concatenate(<<bm>> \o pms) ELSE bm

\* generate_3d_model: combine all meshes
CombineMeshes ==
    /\ pc = "g_paths"
    /\ path_i = Len(paths)
    /\ combined_mesh' = Combine(building_mesh, path_meshes)
    /\ pc' = "g_validate"
    /\ UNCHANGED <<buildings, graph, pgVars, building_mesh, path_meshes, path_i,
                   path_ok, output_file, console, exc>>

\* generate_3d_model: raise ValueError("Final mesh is empty!")
ValidateEmpty ==
    /\ pc = "g_validate"
    /\ is_empty(combined_mesh)
    /\ exc' = "ValueError: Final mesh is empty!"
    /\ pc' = "main_except"
    /\ UNCHANGED <<buildings, graph, pgVars, g3dVars, console>>

\* generate_3d_model: the mesh is not empty
ValidateOk ==
    /\ pc = "g_validate"
    /\ ~is_empty(combined_mesh)
    /\ pc' = "g_center"
    /\ UNCHANGED <<buildings, graph, pgVars, g3dVars, console, exc>>

\* the translation with the sign of the centroid kept
CenteredWrongSign(mesh) == apply_translation(mesh, centroid(mesh))

\* the mesh after combined_mesh.apply_translation(-combined_mesh.centroid)
Centered(mesh) == apply_translation(mesh, Negated(centroid(mesh)))

\* generate_3d_model: centre the mesh; without path Solids combined_mesh is
\* the very object building_mesh
Center ==
    /\ pc = "g_center"
    /\ combined_mesh' = Centered(combined_mesh)
    /\ building_mesh' = IF path_meshes = <<>> THEN Centered(combined_mesh) ELSE building_mesh
    /\ pc' = "g_export"
    /\ UNCHANGED <<buildings, graph, pgVars, path_meshes, path_i, path_ok,
                   output_file, console, exc>>

\* generate_3d_model: combined_mesh.export(output_file) writes the artifact
Export ==
    /\ pc = "g_export"
    /\ output_file' = combined_mesh
    /\ console' = Append(console, "SAVED")
    /\ pc' = "main_success"
    /\ UNCHANGED <<buildings, graph, pgVars, building_mesh, path_meshes, path_i,
                   path_ok, combined_mesh, exc>>

\* an export failure that main does not catch
ExportRaiseUncaught ==
    /\ pc = "g_export"
    /\ exc' = "export failed"
    /\ pc' = "uncaught"
    /\ UNCHANGED <<buildings, graph, pgVars, g3dVars, console>>

\* combined_mesh.export(output_file) raises (unwritable path, unknown format)
ExportRaise ==
    /\ pc = "g_export"
    /\ exc' = "export failed"
    /\ pc' = "main_except"
    /\ UNCHANGED <<buildings, graph, pgVars, g3dVars, console>>

\* main: print SUCCESS
MainSuccess ==
    /\ pc = "main_success"
    /\ console' = Append(console, "SUCCESS")
    /\ pc' = "done"
    /\ UNCHANGED <<buildings, graph, pgVars, g3dVars, exc>>

\* main: except Exception as e: print ERROR
MainExcept ==
    /\ pc = "main_except"
    /\ console' = Append(console, "ERROR")
    /\ pc' = "done"
    /\ UNCHANGED <<buildings, graph, pgVars, g3dVars, exc>>

Next ==
    \/ FetchData
    \/ FetchError
    \/ MainAbort
    \/ MainProcess
    \/ PGFallbackBuilding
    \/ PGUnion
    \/ PGSelect
    \/ PGCleanSkip
    \/ PGCleanRepair
    \/ PGSimplify
    \/ PGEdges
    \/ PGEdge
    \/ PGReturn
    \/ ExtrudeBuilding
    \/ ExtrudePath
    \/ CombineMeshes
    \/ ValidateEmpty
    \/ ValidateOk
    \/ Center
    \/ Export
    \/ ExportRaise
    \/ MainSuccess
    \/ MainExcept

Spec == Init /\ [][Next]_vars

----------------------------------------------------------------------------
(* Properties. *)

\* the fetch succeeded
Fetched == buildings # None /\ graph # None

\* process_geometries has returned to main
Processed ==
    /\ Fetched
    /\ pc \in {"g_building", "g_paths", "g_validate", "g_center", "g_export",
               "main_success", "main_except", "done"}

\* generate_3d_model has built combined_mesh
Combined == combined_mesh # None

\* the run is over
Terminated == pc \in {"done", "uncaught"}

LastLine == IF console = <<>> THEN "" ELSE console[Len(console)]

Printed(tag) == \E i \in 1..Len(console) : console[i] = tag

\* C1: whenever the combined mesh is empty, the run is at the emptiness check
\* or has left it with the empty-model error: the mesh was never translated,
\* no artifact exists, and main ends with ERROR and without SUCCESS.
C1_EmptyModelFails ==
    (Combined /\ combined_mesh.faces = <<>>) =>
        /\ pc \in {"g_validate", "main_except", "done"}
        /\ combined_mesh.shift = Zero3
        /\ output_file = None
        /\ pc # "g_validate" => exc = "ValueError: Final mesh is empty!"
        /\ ~Printed("SAVED") /\ ~Printed("SUCCESS")
        /\ pc = "done" => LastLine = "ERROR"

\* an empty model was built and the run has ended
C1_Witness == pc = "done" /\ Combined /\ combined_mesh.faces = <<>>

C3_AbortBeforePipeline ==
    (pc # "fetch" /\ (buildings = None \/ graph = None)) =>
        /\ pc \in {"fetched", "done"}
        /\ all_buildings = None /\ building_poly = None /\ paths = <<>>
        /\ building_mesh = None /\ path_meshes = <<>> /\ combined_mesh = None
        /\ output_file = None
        /\ pc = "done" => console = <<"ERROR", "FAILED">>

\* the run has returned after a failed fetch
C3_Witness == pc = "done" /\ buildings = None /\ LastLine = "FAILED"

\* C4 (as stated): for a non-empty building collection the footprint returned
\* by process_geometries is one single-part polygon, valid and non-empty.
C4_FootprintSinglePolygon ==
    (Processed /\ Len(buildings.geometry) > 0) =>
        /\ building_poly.type = "Polygon"
        /\ is_valid(building_poly)
        /\ ~is_empty_geom(building_poly)

\* the edges that pass the filters of process_geometries, simplified, in order
RECURSIVE C5_Survivors(_)
C5_Survivors(edges) ==
    IF edges = <<>> THEN <<>>
    ELSE LET e == Head(edges)
             keep == /\ e.type = "LineString"
                     /\ Len(e.coords) >= 2
                     /\ is_valid(simplify(e, 1))
         IN  (IF keep THEN <<simplify(e, 1)>> ELSE <<>>) \o C5_Survivors(Tail(edges))

\* C5: the path list process_geometries returns is never empty (and stays so
\* for the rest of the run); at the return it is the single curve (5,5)-(15,15)
\* when no edge survives the filters, and otherwise the surviving simplified
\* curves in edge order, without the fallback.
C5_PathsNeverEmpty ==
    /\ Processed => Len(paths) >= 1
    /\ (Processed /\ pc = "g_building") =>
          LET kept == C5_Survivors(graph.edges)
          IN  IF kept = <<>>
              THEN paths = <<[type |-> "LineString", coords |-> <<<<5, 5>>, <<15, 15>>>>]>>
              ELSE paths = kept

\* process_geometries returned surviving curves from a graph that also held an
\* edge the filters removed
C5_Witness ==
    /\ Processed
    /\ pc = "g_building"
    /\ Len(paths) >= 1
    /\ Len(paths) < Len(graph.edges)
    /\ paths # <<FallbackPath>>

\* the faces of the 20 x 20 x 10 box centred on the origin: caps at z = -5 and
\* z = +5, each two triangles of 200 square metres
C6_BoxFaces ==
    <<[c |-> <<200, -200, -300>>, w |-> 400], [c |-> <<-200, 200, -300>>, w |-> 400],
      [c |-> <<200, -200, 300>>, w |-> 400], [c |-> <<-200, 200, 300>>, w |-> 400]>>

\* the footprint can be extruded at all
C6_Extrudable == building_poly.type = "Polygon" /\ is_valid(building_poly)

\* C6: once the footprint extrusion has been attempted there is a footprint
\* Solid: right after the attempt it is the extrusion of the footprint to
\* height 10, or the 20 x 20 x 10 box when the extrusion failed, with no
\* exception in flight and the loop over the paths next; and from the merge on
\* the merged mesh begins with the faces of the footprint Solid.
C6_FootprintSolidPresent ==
    (Processed /\ pc # "g_building") =>
        /\ building_mesh.type = "Trimesh"
        /\ (pc = "g_paths" /\ path_i = 0) =>
              /\ exc = ""
              /\ \/ building_mesh = [type |-> "Trimesh", faces |-> C6_BoxFaces,
                                      den |-> 60, shift |-> Zero3]
                 \/ /\ C6_Extrudable
                    /\ building_mesh \in extrude_polygon(building_poly, 100)
              /\ ~C6_Extrudable => building_mesh.faces = C6_BoxFaces
        /\ pc # "g_paths" =>
              /\ Combined
              /\ Len(combined_mesh.faces) >= Len(building_mesh.faces)
              /\ SubSeq(combined_mesh.faces, 1, Len(building_mesh.faces)) = building_mesh.faces

\* a footprint that cannot be extruded was replaced by the box and merged
\* with path Solids
C6_Witness ==
    /\ pc = "g_validate"
    /\ ~C6_Extrudable
    /\ building_mesh.faces = C6_BoxFaces
    /\ path_meshes # <<>>

\* the Solid of one path: its ribbon extruded to height 0.3
C7_PathSolid(path) ==
    CHOOSE m \in extrude_polygon(buffer_half(path), 3) : m # Raise

\* the Solids of the first n paths whose try-block completed, in path order
RECURSIVE C7_Expected(_)
C7_Expected(n) ==
    IF n = 0 THEN <<>>
    ELSE C7_Expected(n - 1) \o (IF path_ok[n] THEN <<C7_PathSolid(paths[n])>> ELSE <<>>)

\* C7: during and after the loop over the paths, the path Solids are exactly
\* the Solids of the paths whose extrusion succeeded, one each, in path order;
\* a failure leaves the loop running with no exception in flight; every path
\* is attempted before the merge, and the merged mesh is the footprint Solid
\* followed by those path Solids (the footprint Solid alone when none is left).
C7_FailedPathOnlyOmitted ==
    (Processed /\ pc # "g_building") =>
        /\ Len(path_ok) = path_i
        /\ pc = "g_paths" => exc = "" /\ path_meshes = C7_Expected(path_i)
        /\ pc # "g_paths" => path_i = Len(paths)
        /\ pc = "g_validate" =>
              /\ path_meshes = C7_Expected(path_i)
              /\ combined_mesh.faces = building_mesh.faces \o ConcatFaces(path_meshes, 1)

\* a path failed and a later path still contributed its Solid to the merge
C7_Witness ==
    /\ pc = "g_validate"
    /\ \E i, j \in 1..Len(path_ok) : i < j /\ ~path_ok[i] /\ path_ok[j]
    /\ Len(path_meshes) = 1

\* C8: the mesh is untranslated up to and including the emptiness check;
\* when export is called, and in the artifact export has just written, the
\* mesh holds the footprint Solid and all path Solids, is not empty, and its
\* area-weighted centroid is the origin.
C8_CentredAtExport ==
    /\ (Combined /\ pc \in {"g_validate", "g_center"}) => combined_mesh.shift = Zero3
    /\ (Combined /\ pc = "g_export") =>
          /\ combined_mesh.faces # <<>>
          /\ centroid(combined_mesh) = Zero3
          /\ combined_mesh.faces = building_mesh.faces \o ConcatFaces(path_meshes, 1)
    /\ output_file # None =>
          /\ output_file = combined_mesh
          /\ output_file.faces # <<>>
          /\ pc = "main_success" => centroid(output_file) = Zero3

\* an artifact of a footprint Solid and path Solids that had to be moved
C8_Witness ==
    /\ output_file # None
    /\ path_meshes # <<>>
    /\ output_file.shift # Zero3

\* C9: with no building rows the footprint is the square (0,0) (20,0) (20,20)
\* (0,20) of area 400, and the run never visits the union, selection, repair or
\* simplification steps.
C9_FallbackSquare ==
    (Fetched /\ Len(buildings.geometry) = 0 /\ pc \notin {"fetched", "pg_buildings"}) =>
        /\ building_poly =
              [type |-> "Polygon",
               exterior |-> <<<<0, 0>>, <<20, 0>>, <<20, 20>>, <<0, 20>>, <<0, 0>>>>,
               den |-> 1]
        /\ Area2(building_poly) = 2 * 400
        /\ pc \notin {"pg_select", "pg_clean", "pg_simplify"}
        /\ all_buildings = None

\* process_geometries returned the fallback square for an empty collection
C9_Witness ==
    /\ Processed
    /\ Len(buildings.geometry) = 0
    /\ Printed("FALLBACK_BUILDING")

\* C10: right after the selection from a multi-part union, the footprint is a
\* part whose area no other part exceeds and which no earlier part equals.
C10_LargestFirstWins ==
    (pc = "pg_clean" /\ all_buildings.type = "MultiPolygon") =>
        \E k \in 1..Len(all_buildings.geoms) :
            /\ building_poly = all_buildings.geoms[k]
            /\ \A j \in 1..Len(all_buildings.geoms) :
                  /\ Area2(all_buildings.geoms[j]) <= Area2(all_buildings.geoms[k])
                  /\ j < k => Area2(all_buildings.geoms[j]) < Area2(all_buildings.geoms[k])

\* two parts tie for the largest area and the first of them was selected
C10_Witness ==
    /\ pc = "pg_clean"
    /\ all_buildings.type = "MultiPolygon"
    /\ Area2(all_buildings.geoms[1]) > 0
    /\ Area2(all_buildings.geoms[1]) = Area2(all_buildings.geoms[2])
    /\ \A j \in 1..Len(all_buildings.geoms) :
          Area2(all_buildings.geoms[j]) <= Area2(all_buildings.geoms[1])
    /\ building_poly = all_buildings.geoms[1]

====
